---------------------------- MODULE Spec2Model ----------------------------
(***************************************************************************)
(* Model of bangla_time_announcer.py: the time-to-clip-sequence resolver   *)
(* (get_audio_files_for_time), the two playback functions, the preflight   *)
(* check and the scheduling loop of run_announcer, with the SIGINT handler *)
(* as an asynchronous action.                                              *)
(*                                                                         *)
(* Two specifications:                                                     *)
(*   SpecResolve  the resolver applied to every time 00:00 .. 23:59;       *)
(*   Spec         one run of run_announcer.                                *)
(*                                                                         *)
(* Environment: datetime.now(), os.path.exists, os.makedirs, the aplay     *)
(* probe and the outcome of playing one clip are inputs drawn with \E.     *)
(* Instants are whole seconds (microseconds are left out).  The backend    *)
(* found at startup is taken to initialise (pygame.mixer.init() returns).  *)
(***************************************************************************)
EXTENDS Integers, Sequences, FiniteSets, TLC

VARIABLES
    pc,               \* position of the one thread of control
    running,          \* global running (line 72)
    PYGAME_AVAILABLE, \* global set by the import at lines 11-15
    interval,         \* run_announcer argument
    test_only,        \* run_announcer argument
    missing_files,    \* run_announcer local (line 207); <<>> before
    stdout,           \* what run_announcer printed at startup
    now,              \* run_announcer local (line 231); NoTime when dead
    next_time,        \* run_announcer local (lines 238-249); NoTime when dead
    wait_seconds,     \* run_announcer local (line 252)
    sleep_time,       \* run_announcer local (line 256)
    slept,            \* history: seconds slept since wait_seconds was set
    call_site,        \* which call of announce_time is active
    resolved,         \* locals and result of get_audio_files_for_time
    audio_files,      \* argument of the playback function
    idx,              \* position of the for loop in audio_files (1-based)
    log,              \* history: what happened to each clip attempted
    announcements,    \* history: number of calls of announce_time
    stopped_at        \* history: where the thread was when the flag was cleared

vars == <<pc, running, PYGAME_AVAILABLE, interval, test_only, missing_files,
          stdout, now, next_time, wait_seconds, sleep_time, slept, call_site,
          resolved, audio_files, idx, log, announcements, stopped_at>>

None == "None"

\* The value of a datetime local that holds nothing.
NoTime == [day |-> -1, hour |-> 0, minute |-> 0, second |-> 0]

\* The flag has not been cleared.
NotStopped == [pc |-> None, idx |-> 0]

\* Nothing printed at startup.
NoOutput == [kind |-> None, count |-> 0, listed |-> <<>>, more |-> 0]

(***************************************************************************)
(* Python helpers                                                          *)
(***************************************************************************)

\* A dict literal as the sequence of its <<key, value>> items in source order.
\* d[k]: the last item with key k wins; a missing key raises KeyError.
DictHas(d, k) == \E i \in 1..Len(d) : d[i][1] = k

DictGet(d, k) ==
    IF DictHas(d, k)
    THEN d[CHOOSE i \in 1..Len(d) :
              d[i][1] = k /\ \A j \in (i + 1)..Len(d) : d[j][1] # k][2]
    ELSE "KeyError"

DictKeys(d) == {d[i][1] : i \in 1..Len(d)}

\* list(d.values()) of a literal whose keys are distinct: the values in order.
DictValues(d) == [i \in 1..Len(d) |-> d[i][2]]

Digits == <<"0", "1", "2", "3", "4", "5", "6", "7", "8", "9">>

\* str(n) of a non-negative int, as the f-string at line 108 formats it.
RECURSIVE IntStr(_)
IntStr(n) ==
    IF n < 10 THEN Digits[n + 1]
    ELSE IntStr(n \div 10) \o Digits[(n % 10) + 1]

Min(a, b) == IF a < b THEN a ELSE b

(***************************************************************************)
(* Tables (lines 19-69)                                                    *)
(***************************************************************************)

AUDIO_FILES ==
    << <<"intro", "ekhon_somoy.wav">>,
       <<"hour_1", "ekta.wav">>,
       <<"hour_2", "duita.wav">>,
       <<"hour_3", "tinta.wav">>,
       <<"hour_4", "charta.wav">>,
       <<"hour_5", "panchta.wav">>,
       <<"hour_6", "choyta.wav">>,
       <<"hour_7", "shatta.wav">>,
       <<"hour_8", "atta.wav">>,
       <<"hour_9", "noyta.wav">>,
       <<"hour_10", "doshta.wav">>,
       <<"hour_11", "egarota.wav">>,
       <<"hour_12", "barota.wav">>,
       <<"minute_15", "poner_minute.wav">>,
       <<"minute_30", "trish_minute.wav">>,
       <<"minute_45", "poytallish_minute.wav">>,
       <<"period_dawn", "bhor.wav">>,
       <<"period_morning", "sokal.wav">>,
       <<"period_noon", "dupur.wav">>,
       <<"period_evening", "bikal.wav">>,
       <<"period_dusk", "shondha.wav">>,
       <<"period_night", "rat.wav">> >>

\* The dict with midnight filed under 24 instead of 0.
TIME_PERIODS_Midnight24 ==
    << <<4, "period_dawn">>, <<5, "period_dawn">>,
       <<6, "period_morning">>, <<7, "period_morning">>, <<8, "period_morning">>,
       <<9, "period_morning">>, <<10, "period_morning">>, <<11, "period_morning">>,
       <<12, "period_noon">>, <<13, "period_noon">>, <<14, "period_noon">>,
       <<15, "period_noon">>,
       <<16, "period_evening">>, <<17, "period_evening">>,
       <<18, "period_dusk">>, <<19, "period_dusk">>,
       <<20, "period_night">>, <<21, "period_night">>, <<22, "period_night">>,
       <<23, "period_night">>,
       <<24, "period_night">>, <<1, "period_night">>, <<2, "period_night">>,
       <<3, "period_night">> >>

TIME_PERIODS ==
    << <<4, "period_dawn">>, <<5, "period_dawn">>,
       <<6, "period_morning">>, <<7, "period_morning">>, <<8, "period_morning">>,
       <<9, "period_morning">>, <<10, "period_morning">>, <<11, "period_morning">>,
       <<12, "period_noon">>, <<13, "period_noon">>, <<14, "period_noon">>,
       <<15, "period_noon">>,
       <<16, "period_evening">>, <<17, "period_evening">>,
       <<18, "period_dusk">>, <<19, "period_dusk">>,
       <<20, "period_night">>, <<21, "period_night">>, <<22, "period_night">>,
       <<23, "period_night">>,
       <<0, "period_night">>, <<1, "period_night">>, <<2, "period_night">>,
       <<3, "period_night">> >>

(***************************************************************************)
(* get_audio_files_for_time (lines 74-118)                                 *)
(***************************************************************************)

\* Lines 78-80.
Hour12(hour) == IF hour % 12 = 0 THEN 12 ELSE hour % 12

\* The rounding with the last band starting one minute late.
RoundMinute_LateRollover(hour_24, hour_12, minute) ==
    IF minute < 8 THEN [minute_rounded |-> 0, hour_12 |-> hour_12, hour_24 |-> hour_24]
    ELSE IF minute < 23 THEN [minute_rounded |-> 15, hour_12 |-> hour_12, hour_24 |-> hour_24]
    ELSE IF minute < 38 THEN [minute_rounded |-> 30, hour_12 |-> hour_12, hour_24 |-> hour_24]
    ELSE IF minute <= 53 THEN [minute_rounded |-> 45, hour_12 |-> hour_12, hour_24 |-> hour_24]
    ELSE [minute_rounded |-> 0,
          hour_12 |-> (hour_12 % 12) + 1,
          hour_24 |-> (hour_24 + 1) % 24]

\* Lines 84-95.
RoundMinute(hour_24, hour_12, minute) ==
    IF minute < 8 THEN [minute_rounded |-> 0, hour_12 |-> hour_12, hour_24 |-> hour_24]
    ELSE IF minute < 23 THEN [minute_rounded |-> 15, hour_12 |-> hour_12, hour_24 |-> hour_24]
    ELSE IF minute < 38 THEN [minute_rounded |-> 30, hour_12 |-> hour_12, hour_24 |-> hour_24]
    ELSE IF minute < 53 THEN [minute_rounded |-> 45, hour_12 |-> hour_12, hour_24 |-> hour_24]
    ELSE [minute_rounded |-> 0,
          hour_12 |-> (hour_12 % 12) + 1,
          hour_24 |-> (hour_24 + 1) % 24]

\* The minute part with the 45 branch appending the 15 clip.
MinuteClips_Wrong45(minute_rounded) ==
    IF minute_rounded = 15 THEN <<DictGet(AUDIO_FILES, "minute_15")>>
    ELSE IF minute_rounded = 30 THEN <<DictGet(AUDIO_FILES, "minute_30")>>
    ELSE IF minute_rounded = 45 THEN <<DictGet(AUDIO_FILES, "minute_15")>>
    ELSE <<>>

\* Lines 111-116.
MinuteClips(minute_rounded) ==
    IF minute_rounded = 15 THEN <<DictGet(AUDIO_FILES, "minute_15")>>
    ELSE IF minute_rounded = 30 THEN <<DictGet(AUDIO_FILES, "minute_30")>>
    ELSE IF minute_rounded = 45 THEN <<DictGet(AUDIO_FILES, "minute_45")>>
    ELSE <<>>

\* The locals and the result of one call, given what datetime.now() returned.
\* raised is TRUE when a dict lookup raised KeyError (no list is returned).
ResolveWith(t, periodHour, r) ==
    LET period_key == DictGet(TIME_PERIODS, periodHour)
        period     == DictGet(AUDIO_FILES, period_key)
        hour       == DictGet(AUDIO_FILES, "hour_" \o IntStr(r.hour_12))
        intro      == DictGet(AUDIO_FILES, "intro")
        raised     == "KeyError" \in {period_key, period, hour, intro}
    IN  [hour |-> t.hour, minute |-> t.minute,
         hour_24 |-> r.hour_24, hour_12 |-> r.hour_12,
         minute_rounded |-> r.minute_rounded,
         period_key |-> period_key,
         raised |-> raised,
         files |-> IF raised THEN <<>>
                   ELSE <<intro, period, hour>> \o MinuteClips(r.minute_rounded)]

\* The period looked up from now.hour, before the rollover.
get_audio_files_for_time_PeriodBeforeRollover(t) ==
    ResolveWith(t, t.hour, RoundMinute(t.hour, Hour12(t.hour), t.minute))

\* Lines 76-118.
get_audio_files_for_time(t) ==
    LET r == RoundMinute(t.hour, Hour12(t.hour), t.minute)
    IN  ResolveWith(t, r.hour_24, r)

NoResult ==
    [hour |-> 0, minute |-> 0, hour_24 |-> 0, hour_12 |-> 0, minute_rounded |-> 0,
     period_key |-> None, raised |-> FALSE, files |-> <<>>]

(***************************************************************************)
(* datetime arithmetic used by run_announcer (lines 231-252)               *)
(***************************************************************************)

\* now.replace(minute=m, second=0, microsecond=0)
Replace(t, m) == [t EXCEPT !.minute = m, !.second = 0]

\* t + datetime.timedelta(hours=1)
PlusHour(t) ==
    IF t.hour = 23 THEN [t EXCEPT !.day = @ + 1, !.hour = 0]
    ELSE [t EXCEPT !.hour = @ + 1]

\* Seconds since midnight of day 0; (a - b).total_seconds() is the difference.
TotalSeconds(t) == ((t.day * 24 + t.hour) * 60 + t.minute) * 60 + t.second

\* The boundary with the hour not carried when the minute wraps to 0.
NextTime_NoHourCarry(t, iv) ==
    IF iv = 15
    THEN LET next_minute == ((t.minute \div 15) + 1) * 15
         IN  IF next_minute = 60 THEN Replace(t, 0) ELSE Replace(t, next_minute)
    ELSE IF iv = 30
    THEN IF t.minute < 30 THEN Replace(t, 30) ELSE Replace(t, 0)
    ELSE Replace(t, 0)

\* Lines 234-249.
NextTime(t, iv) ==
    IF iv = 15
    THEN LET next_minute == ((t.minute \div 15) + 1) * 15
         IN  IF next_minute = 60 THEN PlusHour(Replace(t, 0))
             ELSE Replace(t, next_minute)
    ELSE IF iv = 30
    THEN IF t.minute < 30 THEN Replace(t, 30) ELSE PlusHour(Replace(t, 0))
    ELSE PlusHour(Replace(t, 0))

\* Line 256: the longest single time.sleep.
ChunkSeconds == 10

(***************************************************************************)
(* Inputs                                                                  *)
(***************************************************************************)

\* How many times the main loop may call announce_time in one run.
MaxLoopAnnouncements == 1

\* --interval choices (line 268).
Intervals == {15, 30, 60}

\* What datetime.now() may return at line 231.
SchedHours == {7, 23}
SchedSeconds == {0, 59}
SchedTimes ==
    {[day |-> 0, hour |-> h, minute |-> m, second |-> s] :
        h \in SchedHours, m \in 0..59, s \in SchedSeconds}

\* What datetime.now() may return at line 76 during a run.
SampleTimes ==
    {[day |-> 0, hour |-> 7, minute |-> 5, second |-> 0],
     [day |-> 0, hour |-> 7, minute |-> 10, second |-> 0],
     [day |-> 0, hour |-> 12, minute |-> 30, second |-> 0],
     [day |-> 0, hour |-> 14, minute |-> 40, second |-> 0],
     [day |-> 0, hour |-> 23, minute |-> 55, second |-> 0]}

\* Every minute of the day, for the resolver on its own.
AllTimes ==
    {[day |-> 0, hour |-> h, minute |-> m, second |-> 0] : h \in 0..23, m \in 0..59}

AllFiles == {AUDIO_FILES[i][2] : i \in 1..Len(AUDIO_FILES)}

HourFiles == {DictGet(AUDIO_FILES, "hour_" \o IntStr(n)) : n \in 1..12}

\* Which required files may be absent from AUDIO_DIR at startup.
AbsentChoices ==
    {{}, {"ekhon_somoy.wav"}, {"shatta.wav", "trish_minute.wav"}, HourFiles, AllFiles}

(***************************************************************************)
(* check_audio_files (lines 170-187)                                       *)
(***************************************************************************)

check_audio_files(dirExists, makedirsOk, absent) ==
    IF ~dirExists /\ ~makedirsOk THEN DictValues(AUDIO_FILES)
    ELSE SelectSeq(DictValues(AUDIO_FILES),
                   LAMBDA f : f \in (IF dirExists THEN absent ELSE AllFiles))

\* Lines 209-214: the count, the first ten names, and how many more.
MissingReport(missing) ==
    [kind |-> "missing", count |-> Len(missing),
     listed |-> SubSeq(missing, 1, Min(Len(missing), 10)),
     more |-> IF Len(missing) > 10 THEN Len(missing) - 10 ELSE 0]

(***************************************************************************)
(* State machine                                                           *)
(***************************************************************************)

Locals0 ==
    /\ now = NoTime /\ next_time = NoTime /\ wait_seconds = 0 /\ sleep_time = 0
    /\ slept = 0

Player0 ==
    /\ call_site = None /\ resolved = NoResult /\ audio_files = <<>>
    /\ idx = 0 /\ log = <<>>

Init ==
    /\ pc = "start"
    /\ running = TRUE
    /\ PYGAME_AVAILABLE \in BOOLEAN
    /\ interval \in Intervals
    /\ test_only \in BOOLEAN
    /\ missing_files = <<>>
    /\ stdout = NoOutput
    /\ Locals0
    /\ Player0
    /\ announcements = 0
    /\ stopped_at = NotStopped

\* Lines 164-168, once signal.signal has installed the handler (line 204) and
\* until run_announcer returns.
signal_handler ==
    /\ pc \notin {"start", "done", "crashed"}
    /\ running' = FALSE
    /\ stopped_at' = IF running THEN [pc |-> pc, idx |-> idx] ELSE stopped_at
    /\ UNCHANGED <<pc, PYGAME_AVAILABLE, interval, test_only, missing_files,
                   stdout, now, next_time, wait_seconds, sleep_time, slept,
                   call_site, resolved, audio_files, idx, log, announcements>>

\* Lines 193-204: the backend probe and the installation of the handler.
ProbeBackend ==
    /\ pc = "start"
    /\ \E aplayOk \in BOOLEAN :
          IF ~PYGAME_AVAILABLE /\ ~aplayOk
          THEN pc' = "done" /\ stdout' = [NoOutput EXCEPT !.kind = "no backend"]
          ELSE pc' = "preflight" /\ stdout' = stdout
    /\ UNCHANGED <<running, stopped_at, PYGAME_AVAILABLE, interval, test_only, missing_files,
                   now, next_time, wait_seconds, sleep_time, slept,
                   call_site, resolved, audio_files, idx, log, announcements>>

\* The preflight that goes on whatever check_audio_files returned.
Preflight_IgnoreMissing ==
    /\ pc = "preflight"
    /\ \E dirExists \in BOOLEAN, makedirsOk \in BOOLEAN, absent \in AbsentChoices :
          LET missing == check_audio_files(dirExists, makedirsOk, absent)
          IN  /\ missing_files' = missing
              /\ stdout' = stdout
              /\ pc' = "mode"
    /\ UNCHANGED <<running, stopped_at, PYGAME_AVAILABLE, interval, test_only,
                   now, next_time, wait_seconds, sleep_time, slept,
                   call_site, resolved, audio_files, idx, log, announcements>>

\* Lines 206-215.
Preflight ==
    /\ pc = "preflight"
    /\ \E dirExists \in BOOLEAN, makedirsOk \in BOOLEAN, absent \in AbsentChoices :
          LET missing == check_audio_files(dirExists, makedirsOk, absent)
          IN  /\ missing_files' = missing
              /\ IF Len(missing) > 0
                 THEN stdout' = MissingReport(missing) /\ pc' = "done"
                 ELSE stdout' = stdout /\ pc' = "mode"
    /\ UNCHANGED <<running, stopped_at, PYGAME_AVAILABLE, interval, test_only,
                   now, next_time, wait_seconds, sleep_time, slept,
                   call_site, resolved, audio_files, idx, log, announcements>>

\* The call of announce_time from `site`: the caller's locals that are
\* overwritten before they are read again are dropped.
CallAnnounce(site) ==
    /\ pc' = "resolve"
    /\ call_site' = site
    /\ announcements' = announcements + 1
    /\ now' = NoTime /\ next_time' = NoTime /\ wait_seconds' = 0 /\ sleep_time' = 0
    /\ slept' = 0
    /\ resolved' = NoResult /\ audio_files' = <<>> /\ idx' = 0 /\ log' = <<>>

\* test_only ignored: the startup announcement and the loop follow.
ModeSwitch_NoTestReturn ==
    /\ pc = "mode"
    /\ CallAnnounce("startup")
    /\ UNCHANGED <<running, stopped_at, PYGAME_AVAILABLE, interval, test_only, missing_files,
                   stdout>>

\* Lines 217-227: the test announcement, or the announcement at startup.
ModeSwitch ==
    /\ pc = "mode"
    /\ CallAnnounce(IF test_only THEN "test" ELSE "startup")
    /\ UNCHANGED <<running, stopped_at, PYGAME_AVAILABLE, interval, test_only, missing_files,
                   stdout>>

\* Lines 152-162: announce_time up to the call of the playback function.
announce_time ==
    /\ pc = "resolve"
    /\ \E t \in SampleTimes :
          LET r == get_audio_files_for_time(t)
          IN  /\ resolved' = r
              /\ audio_files' = r.files
              /\ pc' = IF r.raised THEN "crashed"
                       ELSE IF PYGAME_AVAILABLE THEN "pygame_for" ELSE "aplay_for"
    /\ idx' = 1
    /\ log' = <<>>
    /\ UNCHANGED <<running, stopped_at, PYGAME_AVAILABLE, interval, test_only, missing_files,
                   stdout, now, next_time, wait_seconds, sleep_time, slept,
                   call_site, announcements>>

Logged(outcome) == Append(log, [file |-> audio_files[idx], outcome |-> outcome])

\* What one pass of a playback for-loop head may find for the current clip:
\* the file is not there, Sound()/play() or the launch raised, or it plays.
HeadOutcomes == {"missing", "error", "started"}

\* The for loop leaving the sequence at the first clip it cannot play.
ForHead_BreakOnFailure(forPc, busyPc) ==
    /\ pc = forPc
    /\ idx <= Len(audio_files)
    /\ \E outcome \in HeadOutcomes :
          IF outcome = "started"
          THEN pc' = busyPc /\ idx' = idx /\ log' = log
          ELSE pc' = forPc /\ idx' = Len(audio_files) + 1 /\ log' = Logged(outcome)
    /\ UNCHANGED <<running, stopped_at, PYGAME_AVAILABLE, interval, test_only, missing_files,
                   stdout, now, next_time, wait_seconds, sleep_time, slept,
                   call_site, resolved, audio_files, announcements>>

\* The for loop reading the flag before each clip and leaving when it is cleared.
ForHead_ChecksFlag(forPc, busyPc) ==
    /\ pc = forPc
    /\ idx <= Len(audio_files)
    /\ IF ~running
       THEN pc' = forPc /\ idx' = Len(audio_files) + 1 /\ log' = log
       ELSE \E outcome \in HeadOutcomes :
               IF outcome = "started"
               THEN pc' = busyPc /\ idx' = idx /\ log' = log
               ELSE pc' = forPc /\ idx' = idx + 1 /\ log' = Logged(outcome)
    /\ UNCHANGED <<running, stopped_at, PYGAME_AVAILABLE, interval, test_only, missing_files,
                   stdout, now, next_time, wait_seconds, sleep_time, slept,
                   call_site, resolved, audio_files, announcements>>

\* Lines 124-132 (pygame) and 141-148 (aplay): the next clip of the sequence
\* is looked up and started; a missing file or an exception moves on to the
\* clip after it.
ForHead(forPc, busyPc) ==
    /\ pc = forPc
    /\ idx <= Len(audio_files)
    /\ \E outcome \in HeadOutcomes :
          IF outcome = "started"
          THEN pc' = busyPc /\ idx' = idx /\ log' = log
          ELSE pc' = forPc /\ idx' = idx + 1 /\ log' = Logged(outcome)
    /\ UNCHANGED <<running, stopped_at, PYGAME_AVAILABLE, interval, test_only, missing_files,
                   stdout, now, next_time, wait_seconds, sleep_time, slept,
                   call_site, resolved, audio_files, announcements>>

\* Lines 133-137 (pygame: the wait until get_busy() is false) and 148-150
\* (aplay: subprocess.run returns): the clip in progress ends, played to its
\* end or with an exception that is caught and printed.
ClipEnds(forPc, busyPc) ==
    /\ pc = busyPc
    /\ \E outcome \in {"played", "error"} : log' = Logged(outcome)
    /\ idx' = idx + 1
    /\ pc' = forPc
    /\ UNCHANGED <<running, stopped_at, PYGAME_AVAILABLE, interval, test_only, missing_files,
                   stdout, now, next_time, wait_seconds, sleep_time, slept,
                   call_site, resolved, audio_files, announcements>>

play_audio_sequence_pygame ==
    \/ ForHead("pygame_for", "pygame_busy")
    \/ ClipEnds("pygame_for", "pygame_busy")

play_audio_sequence_aplay ==
    \/ ForHead("aplay_for", "aplay_run")
    \/ ClipEnds("aplay_for", "aplay_run")

\* The playback function and announce_time return (the for loop is exhausted):
\* run_announcer returns after the test announcement (line 220), or goes to
\* the test of the main loop (line 230).
AnnounceReturn ==
    /\ pc \in {"pygame_for", "aplay_for"}
    /\ idx > Len(audio_files)
    /\ pc' = IF call_site = "test" THEN "done" ELSE "loop"
    /\ UNCHANGED <<running, stopped_at, PYGAME_AVAILABLE, interval, test_only, missing_files,
                   stdout, now, next_time, wait_seconds, sleep_time, slept,
                   call_site, resolved, audio_files, idx, log, announcements>>

\* Line 230: while running.  The locals of the calls that returned are gone.
LoopTest ==
    /\ pc = "loop"
    /\ pc' = IF running THEN "compute" ELSE "done"
    /\ call_site' = None /\ resolved' = NoResult /\ audio_files' = <<>>
    /\ idx' = 0 /\ log' = <<>>
    /\ UNCHANGED <<running, stopped_at, PYGAME_AVAILABLE, interval, test_only, missing_files,
                   stdout, now, next_time, wait_seconds, sleep_time, slept,
                   announcements>>

\* Lines 231-252: the next boundary and the wait to it.
ComputeWait ==
    /\ pc = "compute"
    /\ \E t \in SchedTimes :
          /\ now' = t
          /\ next_time' = NextTime(t, interval)
          /\ wait_seconds' = TotalSeconds(NextTime(t, interval)) - TotalSeconds(t)
    /\ slept' = 0
    /\ pc' = "wait"
    /\ UNCHANGED <<running, stopped_at, PYGAME_AVAILABLE, interval, test_only, missing_files,
                   stdout, sleep_time, call_site, resolved, audio_files, idx, log,
                   announcements>>

\* The inner loop's test without the flag.
WaitCond_NoFlag == wait_seconds > 0

\* Line 254: while wait_seconds > 0 and running.
WaitCond == wait_seconds > 0 /\ running

\* Lines 254-256: the test of the inner loop and the length of the next chunk.
WaitTest ==
    /\ pc = "wait"
    /\ IF WaitCond
       THEN sleep_time' = Min(wait_seconds, ChunkSeconds) /\ pc' = "sleep"
       ELSE sleep_time' = sleep_time /\ pc' = "after"
    /\ UNCHANGED <<running, stopped_at, PYGAME_AVAILABLE, interval, test_only, missing_files,
                   stdout, now, next_time, wait_seconds, slept,
                   call_site, resolved, audio_files, idx, log, announcements>>

\* Lines 257-260: time.sleep returns after sleep_time seconds (a handled
\* signal does not cut it short), and the flag is read.
SleepChunk ==
    /\ pc = "sleep"
    /\ wait_seconds' = wait_seconds - sleep_time
    /\ slept' = slept + sleep_time
    /\ pc' = IF ~running THEN "after" ELSE "wait"
    /\ UNCHANGED <<running, stopped_at, PYGAME_AVAILABLE, interval, test_only, missing_files,
                   stdout, now, next_time, sleep_time,
                   call_site, resolved, audio_files, idx, log, announcements>>

\* The announcement after the wait made whatever the flag says.
AfterWait_NoFlag ==
    /\ pc = "after"
    /\ announcements <= MaxLoopAnnouncements
    /\ CallAnnounce("loop")
    /\ UNCHANGED <<running, stopped_at, PYGAME_AVAILABLE, interval, test_only, missing_files,
                   stdout>>

\* Lines 262-264: if running, announce; then back to the test of the main loop.
AfterWait ==
    /\ pc = "after"
    /\ IF running
       THEN /\ announcements <= MaxLoopAnnouncements
            /\ CallAnnounce("loop")
       ELSE /\ pc' = "loop"
            /\ UNCHANGED <<now, next_time, wait_seconds, sleep_time, slept,
                           call_site, resolved, audio_files, idx, log,
                           announcements>>
    /\ UNCHANGED <<running, stopped_at, PYGAME_AVAILABLE, interval, test_only, missing_files,
                   stdout>>

Next ==
    \/ signal_handler
    \/ ProbeBackend
    \/ Preflight
    \/ ModeSwitch
    \/ announce_time
    \/ play_audio_sequence_pygame
    \/ play_audio_sequence_aplay
    \/ AnnounceReturn
    \/ LoopTest
    \/ ComputeWait
    \/ WaitTest
    \/ SleepChunk
    \/ AfterWait

Spec == Init /\ [][Next]_vars

(***************************************************************************)
(* The resolver on its own                                                 *)
(***************************************************************************)

InitResolve ==
    /\ pc = "resolver_call"
    /\ running = TRUE
    /\ PYGAME_AVAILABLE = TRUE
    /\ interval = 30
    /\ test_only = FALSE
    /\ missing_files = <<>>
    /\ stdout = NoOutput
    /\ now \in AllTimes
    /\ next_time = NoTime /\ wait_seconds = 0 /\ sleep_time = 0 /\ slept = 0
    /\ Player0
    /\ announcements = 0
    /\ stopped_at = NotStopped

\* One call of get_audio_files_for_time at the instant `now`.
ResolveCall ==
    /\ pc = "resolver_call"
    /\ resolved' = get_audio_files_for_time(now)
    /\ audio_files' = resolved'.files
    /\ pc' = "resolver_return"
    /\ UNCHANGED <<running, stopped_at, PYGAME_AVAILABLE, interval, test_only, missing_files,
                   stdout, now, next_time, wait_seconds, sleep_time, slept,
                   call_site, idx, log, announcements>>

NextResolve == ResolveCall

SpecResolve == InitResolve /\ [][NextResolve]_vars

(***************************************************************************)
(* Properties                                                              *)
(***************************************************************************)

Returned == pc = "resolver_return"

\* The 12-hour form of a 24-hour value, 1..12.
TwelveHourForm(v) == ((v + 11) % 12) + 1

HourClipOf(n) == DictGet(AUDIO_FILES, "hour_" \o IntStr(n))

PeriodClipOf(v) == DictGet(AUDIO_FILES, DictGet(TIME_PERIODS, v))

SixPeriods ==
    {"period_dawn", "period_morning", "period_noon", "period_evening",
     "period_dusk", "period_night"}

\* C1: for every hour h in 0..23 and minute m in 0..59 the minute is rounded
\* to 0 for m < 8, 15 for 8 <= m < 23, 30 for 23 <= m < 38, 45 for
\* 38 <= m < 53 and 0 for 53 <= m; only in the last band the 24-hour value
\* becomes (h + 1) mod 24 and the 12-hour value advances by one with 12 -> 1;
\* in the other bands both are as derived from h.
C1_MinuteRounding ==
    Returned =>
        LET h == now.hour
            m == now.minute
            h12 == IF h % 12 = 0 THEN 12 ELSE h % 12
        IN  /\ (m < 8 => resolved.minute_rounded = 0)
            /\ (8 <= m /\ m < 23 => resolved.minute_rounded = 15)
            /\ (23 <= m /\ m < 38 => resolved.minute_rounded = 30)
            /\ (38 <= m /\ m < 53 => resolved.minute_rounded = 45)
            /\ (53 <= m => /\ resolved.minute_rounded = 0
                           /\ resolved.hour_24 = (h + 1) % 24
                           /\ resolved.hour_12 = IF h12 = 12 THEN 1 ELSE h12 + 1)
            /\ (m < 53 => resolved.hour_24 = h /\ resolved.hour_12 = h12)

\* 11:53 rolls over to twelve, 12:53 to one.
C1_Witness ==
    /\ Returned
    /\ now.hour = 11 /\ now.minute = 53
    /\ resolved.minute_rounded = 0 /\ resolved.hour_12 = 12 /\ resolved.hour_24 = 12

\* C2: the sequence returned is [intro, period clip, hour clip] followed by at
\* most one minute clip: its length is 3 when the rounded minute is 0 and 4
\* otherwise, its first element is the intro clip, and the fourth, when
\* present, is the minute_15, minute_30 or minute_45 clip of the rounded bucket.
C2_SequenceShape ==
    Returned =>
        LET f == resolved.files
            b == resolved.minute_rounded
        IN  /\ ~resolved.raised
            /\ Len(f) = IF b = 0 THEN 3 ELSE 4
            /\ f[1] = "ekhon_somoy.wav"
            /\ f[2] \in {DictGet(AUDIO_FILES, k) : k \in SixPeriods}
            /\ f[3] \in {HourClipOf(n) : n \in 1..12}
            /\ (Len(f) = 4 =>
                   /\ b \in {15, 30, 45}
                   /\ f[4] = DictGet(AUDIO_FILES, "minute_" \o IntStr(b))
                   /\ f[4] \in {"poner_minute.wav", "trish_minute.wav",
                                "poytallish_minute.wav"})

\* 14:40 resolves to four clips, the last one the 45-minute clip.
C2_Witness ==
    /\ Returned
    /\ now.hour = 14 /\ now.minute = 40
    /\ resolved.files = <<"ekhon_somoy.wav", "dupur.wav", "duita.wav",
                          "poytallish_minute.wav">>

\* C3: the period clip and the hour clip are looked up after the rollover: for
\* m >= 53 the period clip is that of (h + 1) mod 24 and the hour clip is the
\* 12-hour form of (h + 1) mod 24, so 23:55 and 23:56 give [intro,
\* period_night, hour_12] and no minute clip; and for every time the hour clip
\* is the 12-hour form of the 24-hour value that selected the period clip.
C3_LookupAfterRollover ==
    Returned =>
        LET h == now.hour
            m == now.minute
            v == IF m >= 53 THEN (h + 1) % 24 ELSE h
            f == resolved.files
        IN  /\ f[2] = PeriodClipOf(v)
            /\ f[3] = HourClipOf(TwelveHourForm(v))
            /\ resolved.hour_24 = v
            /\ resolved.hour_12 = TwelveHourForm(resolved.hour_24)
            /\ (h = 23 /\ m \in {55, 56} =>
                   f = <<"ekhon_somoy.wav", "rat.wav", "barota.wav">>)

\* 03:55 is announced with the period of 04:00 (dawn), not of 03:00 (night).
C3_Witness ==
    /\ Returned
    /\ now.hour = 3 /\ now.minute = 55
    /\ resolved.files = <<"ekhon_somoy.wav", "bhor.wav", "charta.wav">>

\* C4: TIME_PERIODS is a total function on 0..23: every hour has exactly one
\* entry, no key lies outside 0..23, its values are exactly the six periods;
\* so the period lookup never fails, for the rolled-over value either.
C4_PeriodTableTotal ==
    /\ DictKeys(TIME_PERIODS) = 0..23
    /\ \A h \in 0..23 :
          Cardinality({i \in 1..Len(TIME_PERIODS) : TIME_PERIODS[i][1] = h}) = 1
    /\ {TIME_PERIODS[i][2] : i \in 1..Len(TIME_PERIODS)} = SixPeriods
    /\ (Returned => ~resolved.raised /\ resolved.period_key \in SixPeriods)

\* 23:53 rolls over to hour 0, which the table maps to night.
C4_Witness ==
    /\ Returned
    /\ now.hour = 23 /\ now.minute = 53
    /\ resolved.hour_24 = 0 /\ resolved.period_key = "period_night"
    /\ ~resolved.raised

AnnouncePcs == {"resolve", "pygame_for", "pygame_busy", "aplay_for", "aplay_run"}

LoopPcs == {"loop", "compute", "wait", "sleep", "after"}

\* C5: when check_audio_files returns a non-empty list, run_announcer reports
\* the missing files and returns with no call of announce_time and without
\* entering the loop, in test mode and in normal mode; the loop and every
\* announcement are reached only after check_audio_files returned [].
C5_PreflightGate ==
    /\ (Len(missing_files) > 0 =>
           /\ pc = "done"
           /\ announcements = 0
           /\ stdout.kind = "missing"
           /\ stdout.count = Len(missing_files)
           /\ stdout.more = stdout.count - Len(stdout.listed)
           /\ \A i \in 1..Len(stdout.listed) : stdout.listed[i] = missing_files[i])
    /\ (pc \in AnnouncePcs \cup LoopPcs \cup {"mode"} \/ announcements > 0 =>
           /\ Len(missing_files) = 0
           /\ stdout = NoOutput)

\* All twelve hour clips absent in test mode: ten are listed, two more counted.
C5_Witness ==
    /\ pc = "done"
    /\ test_only
    /\ Len(missing_files) = 12
    /\ Len(stdout.listed) = 10 /\ stdout.more = 2
    /\ announcements = 0

\* C6: with the flag cleared while the scheduler waits for the next boundary,
\* the chunk in progress (at most 10 seconds) is finished, no further chunk
\* is started, no announcement is made for that boundary, and the main loop
\* is left.
C6_CancelDuringSleep ==
    [][(~running /\ pc \in {"wait", "sleep", "after", "loop"}) =>
          /\ (pc = "sleep" =>
                 /\ pc' = "after"
                 /\ sleep_time <= ChunkSeconds
                 /\ slept' - slept <= ChunkSeconds)
          /\ (pc = "wait" => pc' = "after" /\ slept' = slept)
          /\ (pc = "after" => pc' = "loop" /\ announcements' = announcements)
          /\ (pc = "loop" => pc' = "done")
          /\ pc' \notin AnnouncePcs]_vars

\* The flag was cleared during a chunk of a one-hour wait: the run ended with
\* most of the wait not slept.
C6_Witness ==
    /\ pc = "done"
    /\ ~running
    /\ stopped_at.pc = "sleep"
    /\ interval = 60
    /\ slept = 2 * ChunkSeconds
    /\ wait_seconds > 300 * ChunkSeconds
    /\ announcements = 1

ClipStarts ==
    /\ pc \in {"pygame_for", "aplay_for"}
    /\ pc' \in {"pygame_busy", "aplay_run"}

C8_TestModeOnce ==
    test_only =>
        /\ pc \notin LoopPcs
        /\ now = NoTime /\ next_time = NoTime
        /\ wait_seconds = 0 /\ sleep_time = 0 /\ slept = 0
        /\ announcements <= 1
        /\ call_site \in {None, "test"}
        /\ (pc \in AnnouncePcs => announcements = 1)
        /\ (pc = "done" /\ stdout = NoOutput =>
               /\ announcements = 1
               /\ Len(audio_files) \in {3, 4}
               /\ Len(log) = Len(audio_files))

\* A test run with --interval 60 that got the signal and still played.
C8_Witness ==
    /\ test_only
    /\ pc = "done"
    /\ interval = 60
    /\ ~running
    /\ announcements = 1
    /\ Len(log) = 4 /\ log[4].outcome = "played"

\* C9: in normal mode, once the preflight passed, run_announcer announces at
\* once, and every later announcement follows a wait slept to its end, to the
\* smallest instant after now whose minute is a multiple of the interval and
\* whose seconds are 0 (in the next hour or day when needed); the wait is more
\* than 0 and at most interval minutes.
C9_AlignedBoundary ==
    /\ [](pc \in {"wait", "sleep", "after"} =>
            LET n == TotalSeconds(now)
                b == TotalSeconds(next_time)
                step == interval * 60
            IN  /\ b > n
                /\ b - n <= step
                /\ b % step = 0
                /\ next_time.second = 0
                /\ next_time.minute % interval = 0
                /\ (now.hour = 23 /\ now.minute >= 60 - interval =>
                       next_time.day = now.day + 1 /\ next_time.hour = 0)
                /\ wait_seconds + slept = b - n
                /\ wait_seconds >= 0)
    /\ [](~test_only /\ call_site = "startup" =>
            announcements = 1 /\ now = NoTime /\ slept = 0)
    /\ [][(~test_only /\ pc = "mode" /\ pc' # pc) =>
            (pc' = "resolve" /\ call_site' = "startup" /\ announcements' = 1)]_vars
    /\ [][(announcements >= 1 /\ announcements' # announcements) =>
            /\ pc = "after"
            /\ running
            /\ announcements' = announcements + 1
            /\ wait_seconds = 0
            /\ slept = TotalSeconds(next_time) - TotalSeconds(now)
            /\ slept > 0]_vars

\* At 23:00:00 with --interval 60 the whole hour was slept, to 00:00 of the
\* next day, and the announcement is due.
C9_Witness ==
    /\ pc = "after"
    /\ running
    /\ interval = 60
    /\ now.hour = 23 /\ now.minute = 0 /\ now.second = 0
    /\ next_time = [day |-> 1, hour |-> 0, minute |-> 0, second |-> 0]
    /\ slept = 3600
    /\ wait_seconds = 0
    /\ announcements = 2

=============================================================================
